---------------------------- MODULE Spec2Model ----------------------------
(***************************************************************************)
(* The approval dashboard's two Cloudflare Pages functions:                *)
(*   POST /api/approve  (functions/api/approve.js, onRequestPost)          *)
(*   POST /api/sync and GET /api/sync  (the sync function, onRequestPost   *)
(*   and onRequestGet)                                                     *)
(* over two KV namespaces, APPROVALS (keys "pending", "history",           *)
(* "decision:<id>") and DASHBOARD_DATA (keys "status", "last_sync").       *)
(*                                                                         *)
(* A handler runs synchronously between two awaits; every KV get or put is *)
(* awaited, so a handler is cut into one step per KV operation, each step  *)
(* carrying the synchronous code that follows the operation.  Handlers of  *)
(* different requests interleave at these steps.                           *)
(*                                                                         *)
(* An absent value (a missing key, null, undefined, a missing field) is    *)
(* the empty tuple None, a present one is the one-element tuple Some(v).   *)
(* An instant (new Date().toISOString()) is an integer: ISO-8601 texts of  *)
(* one format order as their instants do.  Snapshots and request bodies    *)
(* are JSON objects.  Error texts are written in ASCII.                    *)
(***************************************************************************)
EXTENDS Integers, Sequences, FiniteSets

None == <<>>
Some(v) == <<v>>
Val(o) == o[1]

\* ------------------------------------------------------------- bounds
\* Requests served one after the other in a sequential run.
MaxRequests == 3
\* Requests each slot serves in a run with overlapping requests.
MaxOverlap == 1
\* Largest reading of the clock (the initial state is at instant 0).
MaxClock == 1

\* The request slots: requests in different slots are in progress together.
Slots == {"w1", "w2"}

\* ------------------------------------------------------------- constants
\* history.slice(0, 100)
HistoryCap == 100

ALLOWED_APPROVERS == {"rinvest4@gmail.com", "amandalastudios@gmail.com"}

\* String.prototype.toLowerCase on the identities the model uses.
toLowerCase(s) ==
  CASE s = "RInvest4@Gmail.com" -> "rinvest4@gmail.com"
    [] OTHER -> s

\* JSON.stringify: the text of a value; JSON.parse: the value of a text.
\* A text is never null and never the empty string, so it is truthy.
JSONstringify(v) == [json |-> v]
JSONparse(t) == t.json

\* A raw value read from KV (null or a text) is truthy iff it is a text.
Truthy(raw) == raw # None

\* json(data, status): the Response of both files' json helper.
Json(data, status) == [status |-> status, body |-> data]

\* ------------------------------------------------------------- inputs
\* getAuthenticatedEmail(request): null, or the email of the Access JWT.
Emails == {None, Some("RInvest4@Gmail.com"), Some("mallory@example.com")}

Ids == {"A", "B"}
\* The id of the decisions recorded before the initial state.
OldId == "Z"

\* Request bodies of POST /api/approve: a body that is not JSON (None), the
\* well-formed bodies, and bodies that lack id, action or both or name an
\* action that is neither approve nor reject.
ApproveBodies ==
  {None} \cup
  { Some([id |-> Some(i), action |-> Some(a), note |-> n]) :
      i \in Ids, a \in {"approve", "reject"}, n \in {None, Some("lgtm")} } \cup
  { Some([id |-> i, action |-> a, note |-> None]) :
      i \in {None, Some("A")}, a \in {None, Some("delete")} } \cup
  { Some([id |-> None, action |-> Some("approve"), note |-> None]) }

Item(i) == [id |-> i]
\* The status.json documents pushed.  pending_approvals is absent, empty or
\* a list of items with pairwise distinct ids; summary is absent, without
\* active_agents or with it.
Snapshots ==
  { [pending_approvals |-> None, summary |-> None],
    [pending_approvals |-> Some(<<>>), summary |-> Some([active_agents |-> None])],
    [pending_approvals |-> Some(<<Item("A"), Item("B")>>),
     summary |-> Some([active_agents |-> Some(2)])] }

\* Request bodies of POST /api/sync: None is a body that is not JSON.
SyncBodies == {None} \cup {Some(d) : d \in Snapshots}

Secret == "s3cret"
\* The Authorization header: absent, or "Bearer " followed by a credential.
AuthHeaders == {None, Some("Bearer s3cret"), Some("Bearer guess")}

\* ------------------------------------------------------------- state
VARIABLES
  env,         \* the bindings: APPROVALS, DASHBOARD_DATA (bound or not), SYNC_SECRET
  kvStatus,    \* DASHBOARD_DATA "status": None or the text of the last snapshot
  kvLastSync,  \* DASHBOARD_DATA "last_sync": None or an instant
  kvPending,   \* APPROVALS "pending": None or the text of a list of items
  kvHistory,   \* APPROVALS "history": None or the text of a list of decisions
  kvDecision,  \* APPROVALS "decision:<id>": per id, None or the text of a decision
  now,         \* the clock that new Date() reads
  pc,          \* per slot: "idle", or the KV operation its request runs next
  req,         \* per slot: None or the request in progress
  decision,    \* per slot: the local `decision` of approve's onRequestPost
  pendingRaw,  \* per slot: the local `pendingRaw` of either onRequestPost
  historyRaw,  \* per slot: the local `historyRaw` of approve's onRequestPost
  last,        \* None or the request that returned last since the initial state, with its Response
  quota,       \* per slot: the number of requests it may still take
  overlapped,  \* history variable: a request arrived while another was in progress
  prePending,  \* history variable, per slot: kvPending when its request arrived
  returned,    \* history variable: the decisions returned with APPROVALS bound, oldest first
  accepted     \* history variable: None or the document of the last push answered ok

store == <<kvStatus, kvLastSync, kvPending, kvHistory, kvDecision>>
approvals == <<kvPending, kvHistory, kvDecision>>
dashboard == <<kvStatus, kvLastSync>>
locals == <<decision, pendingRaw, historyRaw>>
vars == <<env, kvStatus, kvLastSync, kvPending, kvHistory, kvDecision, now, pc, req,
          decision, pendingRaw, historyRaw, last, quota, overlapped, prePending, returned,
          accepted>>

Min(a, b) == IF a <= b THEN a ELSE b

\* What new Date() can read: the clock does not run backwards.
Readings == {t \in now..(now + 1) : t <= MaxClock}

InProgress(p) == pc[p] # "idle"
Quiescent == \A p \in Slots : ~InProgress(p)

\* ------------------------------------------------------------- initial states
\* The decisions on OldId recorded before the initial state, newest first:
\* the k-th newest was taken at instant 1 - k.
OldDecision(k) ==
  [id |-> OldId, action |-> "approve", note |-> "", by |-> "rinvest4@gmail.com", at |-> 1 - k]
OldHistory(n) == [k \in 1..n |-> OldDecision(k)]
Reverse(s) == [k \in 1..Len(s) |-> s[Len(s) + 1 - k]]

\* Numbers of decisions already recorded in an initial state.
OldSizes == {0, HistoryCap - 1}

Envs == [APPROVALS : BOOLEAN, DASHBOARD_DATA : BOOLEAN, SYNC_SECRET : {None, Some(Secret)}]

\* The snapshot pushed before a seeded initial state.
OldSnapshot == [pending_approvals |-> Some(<<Item("A"), Item("B")>>),
                summary |-> Some([active_agents |-> Some(2)])]

\* One slot serves MaxRequests requests, one after the other.
SequentialQuota == [p \in Slots |-> IF p = "w1" THEN MaxRequests ELSE 0]
\* Each slot serves MaxOverlap requests; the requests of the two slots overlap.
OverlappingQuota == [p \in Slots |-> MaxOverlap]

\* The state after n non-overlapping decisions on OldId by an allow-listed
\* approver (n = 0: none) and then, if seeded, one push of OldSnapshot at
\* instant 0 (not seeded: no push, a fresh pending list).
Init ==
  /\ env \in Envs
  /\ quota \in {SequentialQuota, OverlappingQuota}
  /\ \E n \in OldSizes :
       /\ n > 0 => env.APPROVALS
       /\ kvHistory = IF n = 0 THEN None ELSE Some(JSONstringify(OldHistory(n)))
       /\ kvDecision = [i \in Ids \cup {OldId} |->
                          IF i = OldId /\ n > 0 THEN Some(JSONstringify(OldDecision(1)))
                          ELSE None]
       /\ returned = Reverse(OldHistory(n))
  /\ \E seeded \in BOOLEAN :
       /\ seeded => env.APPROVALS /\ env.DASHBOARD_DATA /\ env.SYNC_SECRET # None
       /\ kvStatus = IF seeded THEN Some(JSONstringify(OldSnapshot)) ELSE None
       /\ kvLastSync = IF seeded THEN Some(0) ELSE None
       /\ kvPending = IF seeded THEN Some(JSONstringify(Val(OldSnapshot.pending_approvals)))
                      ELSE None
       /\ accepted = IF seeded THEN Some(OldSnapshot) ELSE None
  /\ now = 0
  /\ pc = [p \in Slots |-> "idle"]
  /\ req = [p \in Slots |-> None]
  /\ decision = [p \in Slots |-> None]
  /\ pendingRaw = [p \in Slots |-> None]
  /\ historyRaw = [p \in Slots |-> None]
  /\ prePending = [p \in Slots |-> None]
  /\ last = None
  /\ overlapped = FALSE

\* ------------------------------------------------------------- steps
\* A slot takes a request: it is idle and the bound on requests allows it.
Arrives(p) ==
  /\ pc[p] = "idle"
  /\ quota[p] > 0
  /\ quota' = [quota EXCEPT ![p] = @ - 1]
  /\ overlapped' = (overlapped \/ \E q \in Slots \ {p} : InProgress(q))

\* The request r of slot p, which arrived when "pending" was pre, returns resp.
Return(p, r, pre, resp) ==
  /\ pc' = [pc EXCEPT ![p] = "idle"]
  /\ req' = [req EXCEPT ![p] = None]
  /\ decision' = [decision EXCEPT ![p] = None]
  /\ pendingRaw' = [pendingRaw EXCEPT ![p] = None]
  /\ historyRaw' = [historyRaw EXCEPT ![p] = None]
  /\ prePending' = [prePending EXCEPT ![p] = None]
  /\ last' = Some([req |-> r, pre |-> pre, resp |-> resp])

\* The request r of slot p goes on to the KV operation at label.
Goto(p, label) ==
  /\ pc' = [pc EXCEPT ![p] = label]
  /\ UNCHANGED last

\* ------------------------------------------------------------- POST /api/approve
ApproveRequest(email, body) == [op |-> "approve", email |-> email, body |-> body]

\* The local `decision`: by keeps the identity as the JWT spells it.
Decision(email, body, t) ==
  [id |-> Val(body.id), action |-> Val(body.action),
   note |-> IF body.note = None THEN "" ELSE Val(body.note),
   by |-> email, at |-> t]

\* json({ ok: true, ...decision })
Ok(d) == Json([ok |-> TRUE, id |-> d.id, action |-> d.action, note |-> d.note,
               by |-> d.by, at |-> d.at], 200)

Err(text, status) == Json([error |-> text], status)

\* Faulty variant: the allow-list is not consulted.
ApproveRejectsAnyIdentity(email, body) ==
  IF email = None THEN Some(Err("Unauthorized", 401))
  ELSE IF body = None THEN Some(Err("Invalid JSON body", 400))
  ELSE IF Val(body).id = None \/ Val(body).action = None
    THEN Some(Err("Missing required fields: id, action", 400))
  ELSE IF Val(Val(body).action) \notin {"approve", "reject"}
    THEN Some(Err("action must be approve or reject", 400))
  ELSE None

\* Faulty variant: the fields and the action are checked before the allow-list.
ApproveRejectsFieldsFirst(email, body) ==
  IF email = None THEN Some(Err("Unauthorized", 401))
  ELSE IF body = None THEN Some(Err("Invalid JSON body", 400))
  ELSE IF Val(body).id = None \/ Val(body).action = None
    THEN Some(Err("Missing required fields: id, action", 400))
  ELSE IF Val(Val(body).action) \notin {"approve", "reject"}
    THEN Some(Err("action must be approve or reject", 400))
  ELSE IF toLowerCase(Val(email)) \notin ALLOWED_APPROVERS
    THEN Some(Err("Forbidden - not an authorized approver", 403))
  ELSE None

\* Faulty variant: an id that has a decision record is refused.
ApproveRejectsDecided(email, body) ==
  IF email = None THEN Some(Err("Unauthorized", 401))
  ELSE IF toLowerCase(Val(email)) \notin ALLOWED_APPROVERS
    THEN Some(Err("Forbidden - not an authorized approver", 403))
  ELSE IF body = None THEN Some(Err("Invalid JSON body", 400))
  ELSE IF Val(body).id = None \/ Val(body).action = None
    THEN Some(Err("Missing required fields: id, action", 400))
  ELSE IF Val(Val(body).action) \notin {"approve", "reject"}
    THEN Some(Err("action must be approve or reject", 400))
  ELSE IF kvDecision[Val(Val(body).id)] # None
    THEN Some(Err("already decided", 409))
  ELSE None

\* The checks of approve's onRequestPost before it builds the decision, in the
\* order of the code: None when all pass, else the Response of the first
\* that fails.
ApproveRejects(email, body) ==
  IF email = None THEN Some(Err("Unauthorized", 401))
  ELSE IF toLowerCase(Val(email)) \notin ALLOWED_APPROVERS
    THEN Some(Err("Forbidden - not an authorized approver", 403))
  ELSE IF body = None THEN Some(Err("Invalid JSON body", 400))
  ELSE IF Val(body).id = None \/ Val(body).action = None
    THEN Some(Err("Missing required fields: id, action", 400))
  ELSE IF Val(Val(body).action) \notin {"approve", "reject"}
    THEN Some(Err("action must be approve or reject", 400))
  ELSE None

\* Faulty variant: the APPROVALS binding is not tested, the handler goes on to
\* its KV operations whatever the bindings.
ApproveBeginAlwaysStores(p, email, body) ==
  /\ Arrives(p)
  /\ UNCHANGED <<env, store, returned, accepted>>
  /\ LET r == ApproveRequest(email, body)
         rejected == ApproveRejects(email, body)
     IN IF rejected # None
          THEN /\ Return(p, r, kvPending, Val(rejected))
               /\ UNCHANGED now
          ELSE \E t \in Readings :
                 /\ now' = t
                 /\ Goto(p, "put_decision")
                 /\ req' = [req EXCEPT ![p] = Some(r)]
                 /\ decision' = [decision EXCEPT ![p] = Some(Decision(Val(email), Val(body), t))]
                 /\ prePending' = [prePending EXCEPT ![p] = Some(kvPending)]
                 /\ UNCHANGED <<pendingRaw, historyRaw>>

\* The request arrives: identity, allow-list, body and fields are checked and
\* the decision is built with the instant read from the clock.  Without an
\* APPROVALS binding the handler returns the decision at once.
ApproveBegin(p, email, body) ==
  /\ Arrives(p)
  /\ UNCHANGED <<env, store, returned, accepted>>
  /\ LET r == ApproveRequest(email, body)
         rejected == ApproveRejects(email, body)
     IN IF rejected # None
          THEN /\ Return(p, r, kvPending, Val(rejected))
               /\ UNCHANGED now
          ELSE \E t \in Readings :
                 /\ now' = t
                 /\ LET d == Decision(Val(email), Val(body), t)
                    IN IF env.APPROVALS
                         THEN /\ Goto(p, "put_decision")
                              /\ req' = [req EXCEPT ![p] = Some(r)]
                              /\ decision' = [decision EXCEPT ![p] = Some(d)]
                              /\ prePending' = [prePending EXCEPT ![p] = Some(kvPending)]
                              /\ UNCHANGED <<pendingRaw, historyRaw>>
                         ELSE Return(p, r, kvPending, Ok(d))

\* Faulty variant: the decision record is written only while the id has none.
ApprovePutDecisionOnce(p) ==
  /\ pc[p] = "put_decision"
  /\ kvDecision' = IF kvDecision[Val(decision[p]).id] = None
                     THEN [kvDecision EXCEPT ![Val(decision[p]).id] =
                             Some(JSONstringify(Val(decision[p])))]
                   ELSE kvDecision
  /\ Goto(p, "get_pending")
  /\ UNCHANGED <<env, dashboard, kvPending, kvHistory, now, req, locals, quota, overlapped,
                 prePending, returned, accepted>>

\* await env.APPROVALS.put(`decision:${id}`, JSON.stringify(decision))
ApprovePutDecision(p) ==
  /\ pc[p] = "put_decision"
  /\ kvDecision' = [kvDecision EXCEPT ![Val(decision[p]).id] =
                      Some(JSONstringify(Val(decision[p])))]
  /\ Goto(p, "get_pending")
  /\ UNCHANGED <<env, dashboard, kvPending, kvHistory, now, req, locals, quota, overlapped,
                 prePending, returned, accepted>>

\* Faulty variant: the read waits while another request is between its read
\* and its write of "pending" (the read-modify-write is serialized).
ApproveGetPendingLocked(p) ==
  /\ pc[p] = "get_pending"
  /\ \A q \in Slots \ {p} : pc[q] # "put_pending"
  /\ pendingRaw' = [pendingRaw EXCEPT ![p] = kvPending]
  /\ Goto(p, IF Truthy(kvPending) THEN "put_pending" ELSE "get_history")
  /\ UNCHANGED <<env, store, now, req, decision, historyRaw, quota, overlapped,
                 prePending, returned, accepted>>

\* const pendingRaw = await env.APPROVALS.get("pending"); if (pendingRaw) ...
ApproveGetPending(p) ==
  /\ pc[p] = "get_pending"
  /\ pendingRaw' = [pendingRaw EXCEPT ![p] = kvPending]
  /\ Goto(p, IF Truthy(kvPending) THEN "put_pending" ELSE "get_history")
  /\ UNCHANGED <<env, store, now, req, decision, historyRaw, quota, overlapped,
                 prePending, returned, accepted>>

\* Faulty variant: the head of the list is removed, whatever its id.
FilterShift(pending, id) == IF pending = <<>> THEN <<>> ELSE Tail(pending)

\* Faulty variant: the comparison is inverted, the items of the id are the ones kept.
FilterKept(pending, id) == SelectSeq(pending, LAMBDA item : item.id = id)

\* pending.filter((item) => item.id !== id)
Filter(pending, id) == SelectSeq(pending, LAMBDA item : item.id # id)

\* await env.APPROVALS.put("pending", JSON.stringify(updated))
ApprovePutPending(p) ==
  /\ pc[p] = "put_pending"
  /\ LET pending == JSONparse(Val(pendingRaw[p]))
         updated == Filter(pending, Val(decision[p]).id)
     IN kvPending' = Some(JSONstringify(updated))
  /\ Goto(p, "get_history")
  /\ UNCHANGED <<env, dashboard, kvHistory, kvDecision, now, req, locals, quota, overlapped,
                 prePending, returned, accepted>>

\* const historyRaw = await env.APPROVALS.get("history")
ApproveGetHistory(p) ==
  /\ pc[p] = "get_history"
  /\ historyRaw' = [historyRaw EXCEPT ![p] = kvHistory]
  /\ Goto(p, "put_history")
  /\ UNCHANGED <<env, store, now, req, decision, pendingRaw, quota, overlapped,
                 prePending, returned, accepted>>

\* Faulty variant: the stored history is dropped, the decision is kept alone.
UnshiftAlone(history, d) == <<d>>

\* Faulty variant: the decision is pushed at the end.
UnshiftAtEnd(history, d) == Append(history, d)

\* history.unshift(decision)
Unshift(history, d) == <<d>> \o history
\* Faulty variant: one entry too many is kept.
SliceOneMore(history, n) == SubSeq(history, 1, Min(n + 1, Len(history)))

\* history.slice(0, n)
Slice(history, n) == SubSeq(history, 1, Min(n, Len(history)))

\* await env.APPROVALS.put("history", JSON.stringify(history.slice(0, 100)));
\* return json({ ok: true, ...decision })
ApprovePutHistory(p) ==
  /\ pc[p] = "put_history"
  /\ LET history == IF Truthy(historyRaw[p]) THEN JSONparse(Val(historyRaw[p])) ELSE <<>>
     IN kvHistory' = Some(JSONstringify(Slice(Unshift(history, Val(decision[p])), HistoryCap)))
  /\ returned' = Append(returned, Val(decision[p]))
  /\ Return(p, Val(req[p]), Val(prePending[p]), Ok(Val(decision[p])))
  /\ UNCHANGED <<env, dashboard, kvPending, kvDecision, now, quota, overlapped, accepted>>

\* ------------------------------------------------------------- POST /api/sync
SyncRequest(auth, body) == [op |-> "sync", auth |-> auth, body |-> body]

\* authHeader.replace("Bearer ", "") on the headers the model uses.
Token(authHeader) ==
  CASE authHeader = "Bearer s3cret" -> "s3cret"
    [] authHeader = "Bearer guess" -> "guess"
    [] OTHER -> authHeader

\* The checks of sync's onRequestPost before it stores anything: None when
\* both pass, else the Response of the first that fails.
SyncRejects(auth, body) ==
  LET authHeader == IF auth = None THEN "" ELSE Val(auth)
      token == Token(authHeader)
  IN IF env.SYNC_SECRET = None \/ token # Val(env.SYNC_SECRET)
       THEN Some(Err("Unauthorized", 401))
     ELSE IF body = None THEN Some(Err("Invalid JSON", 400))
     ELSE None

\* String(x) for x undefined or the number 2.
StringOf(x) == IF x = None THEN "undefined" ELSE "2"

\* statusData.summary ? statusData.summary.active_agents + " active" : "unknown",
\* a string being the sequence of its pieces.
Agents(statusData) ==
  IF statusData.summary # None
    THEN <<StringOf(Val(statusData.summary).active_agents), " active">>
    ELSE <<"unknown">>

\* return json({ ok: true, received_at: new Date().toISOString(), agents: ... }),
\* the clock having read `from` last.
SyncReturn(p, from) ==
  \E t \in {u \in from..(from + 1) : u <= MaxClock} :
    /\ now' = t
    /\ accepted' = Some(Val(Val(req[p]).body))
    /\ Return(p, Val(req[p]), Val(prePending[p]),
              Json([ok |-> TRUE, received_at |-> t,
                    agents |-> Agents(Val(Val(req[p]).body))], 200))

\* The request arrives: the bearer token and the body are checked.
SyncBegin(p, auth, body) ==
  /\ Arrives(p)
  /\ UNCHANGED <<env, store, now, returned, accepted>>
  /\ LET r == SyncRequest(auth, body)
         rejected == SyncRejects(auth, body)
     IN IF rejected # None
          THEN Return(p, r, kvPending, Val(rejected))
          ELSE /\ Goto(p, "put_status")
               /\ req' = [req EXCEPT ![p] = Some(r)]
               /\ prePending' = [prePending EXCEPT ![p] = Some(kvPending)]
               /\ UNCHANGED locals

\* Faulty variant: the snapshot is stored only while none is stored.
SyncPutStatusOnce(p) ==
  /\ pc[p] = "put_status"
  /\ kvStatus' = IF env.DASHBOARD_DATA /\ kvStatus = None
                   THEN Some(JSONstringify(Val(Val(req[p]).body)))
                 ELSE kvStatus
  /\ Goto(p, "put_last_sync")
  /\ UNCHANGED <<env, kvLastSync, approvals, now, req, locals, quota, overlapped,
                 prePending, returned, accepted>>

\* if (env.DASHBOARD_DATA) await env.DASHBOARD_DATA.put("status", JSON.stringify(statusData))
SyncPutStatus(p) ==
  /\ pc[p] = "put_status"
  /\ kvStatus' = IF env.DASHBOARD_DATA THEN Some(JSONstringify(Val(Val(req[p]).body)))
                 ELSE kvStatus
  /\ Goto(p, "put_last_sync")
  /\ UNCHANGED <<env, kvLastSync, approvals, now, req, locals, quota, overlapped,
                 prePending, returned, accepted>>

\* if (env.DASHBOARD_DATA) await env.DASHBOARD_DATA.put("last_sync", new Date().toISOString())
SyncPutLastSync(p) ==
  /\ pc[p] = "put_last_sync"
  /\ UNCHANGED <<env, kvStatus, approvals, quota, overlapped, returned>>
  /\ \E t \in Readings :
       /\ kvLastSync' = IF env.DASHBOARD_DATA THEN Some(t) ELSE kvLastSync
       /\ IF env.APPROVALS
            THEN /\ now' = IF env.DASHBOARD_DATA THEN t ELSE now
                 /\ Goto(p, "read_pending")
                 /\ UNCHANGED <<req, locals, prePending, accepted>>
            ELSE SyncReturn(p, IF env.DASHBOARD_DATA THEN t ELSE now)

\* const approvals = statusData.pending_approvals || []
Approvals(statusData) ==
  IF statusData.pending_approvals = None THEN <<>> ELSE Val(statusData.pending_approvals)

\* Faulty variant: an empty pending list is seeded again.
SyncGetPendingReseedsEmpty(p) ==
  /\ pc[p] = "read_pending"
  /\ UNCHANGED <<env, store, quota, overlapped, returned>>
  /\ IF ~Truthy(kvPending) \/ JSONparse(Val(kvPending)) = <<>>
       THEN /\ pendingRaw' = [pendingRaw EXCEPT ![p] = kvPending]
            /\ Goto(p, "seed_pending")
            /\ UNCHANGED <<now, req, decision, historyRaw, prePending, accepted>>
       ELSE SyncReturn(p, now)

\* Faulty variant: the pushed approvals are merged into an existing pending list.
SyncGetPendingMerges(p) ==
  /\ pc[p] = "read_pending"
  /\ UNCHANGED <<env, dashboard, kvHistory, kvDecision, quota, overlapped, returned>>
  /\ IF ~Truthy(kvPending)
       THEN /\ pendingRaw' = [pendingRaw EXCEPT ![p] = kvPending]
            /\ Goto(p, "seed_pending")
            /\ UNCHANGED <<kvPending, now, req, decision, historyRaw, prePending, accepted>>
       ELSE /\ kvPending' = Some(JSONstringify(JSONparse(Val(kvPending))
                                                 \o Approvals(Val(Val(req[p]).body))))
            /\ SyncReturn(p, now)

\* const pendingRaw = await env.APPROVALS.get("pending"); if (!pendingRaw) ...
SyncGetPending(p) ==
  /\ pc[p] = "read_pending"
  /\ UNCHANGED <<env, store, quota, overlapped, returned>>
  /\ IF ~Truthy(kvPending)
       THEN /\ pendingRaw' = [pendingRaw EXCEPT ![p] = kvPending]
            /\ Goto(p, "seed_pending")
            /\ UNCHANGED <<now, req, decision, historyRaw, prePending, accepted>>
       ELSE SyncReturn(p, now)

\* await env.APPROVALS.put("pending", JSON.stringify(approvals))
SyncPutPending(p) ==
  /\ pc[p] = "seed_pending"
  /\ kvPending' = Some(JSONstringify(Approvals(Val(Val(req[p]).body))))
  /\ SyncReturn(p, now)
  /\ UNCHANGED <<env, dashboard, kvHistory, kvDecision, quota, overlapped, returned>>

\* ------------------------------------------------------------- GET /api/sync
StatusRequest == [op |-> "status"]

\* onRequestGet: the stored text of the snapshot, or 404.
SyncGet(p) ==
  /\ Arrives(p)
  /\ Return(p, StatusRequest, kvPending,
            IF env.DASHBOARD_DATA /\ Truthy(kvStatus)
              THEN [status |-> 200, body |-> Val(kvStatus)]
              ELSE Err("No status data available. Waiting for first sync.", 404))
  /\ UNCHANGED <<env, store, now, returned, accepted>>

\* ------------------------------------------------------------- specifications
Step(p) ==
  \/ \E email \in Emails, body \in ApproveBodies : ApproveBegin(p, email, body)
  \/ ApprovePutDecision(p)
  \/ ApproveGetPending(p)
  \/ ApprovePutPending(p)
  \/ ApproveGetHistory(p)
  \/ ApprovePutHistory(p)
  \/ \E auth \in AuthHeaders, body \in SyncBodies : SyncBegin(p, auth, body)
  \/ SyncPutStatus(p)
  \/ SyncPutLastSync(p)
  \/ SyncGetPending(p)
  \/ SyncPutPending(p)
  \/ SyncGet(p)

\* Requests of different slots interleave at their KV operations.
Next == \E p \in Slots : Step(p)

\* The deployment: both namespaces bound and the secret set.
Deployed == [APPROVALS |-> TRUE, DASHBOARD_DATA |-> TRUE, SYNC_SECRET |-> Some(Secret)]

\* The deployment under overlapping requests.
InitOverlapping == Init /\ env = Deployed /\ quota = OverlappingQuota
Spec == InitOverlapping /\ [][Next]_vars

\* The deployment under non-overlapping requests.
InitSequential == Init /\ env = Deployed /\ quota = SequentialQuota
SeqSpec == InitSequential /\ [][Next]_vars

\* Any bindings (a namespace or the secret may be unbound), overlapping requests.
InitAnyEnv == Init /\ quota = OverlappingQuota
EnvSpec == InitAnyEnv /\ [][Next]_vars

\* ------------------------------------------------------------- observations
\* PendingQueue and History as lists (the empty list when never written).
Pending == IF kvPending = None THEN <<>> ELSE JSONparse(Val(kvPending))
History == IF kvHistory = None THEN <<>> ELSE JSONparse(Val(kvHistory))
IdsOf(items) == {items[k].id : k \in 1..Len(items)}

\* The request that returned last was an `op` request.
LastWas(op) == last # None /\ Val(last).req.op = op
LastReq == Val(last).req
LastResp == Val(last).resp
\* PendingQueue (None or its text) when the request that returned last arrived.
LastPre == Val(last).pre
\* record_decision returned its Decision (storage is bound in Spec and SeqSpec).
Recorded == LastWas("approve") /\ LastResp.status = 200
\* The Decision {id, action, note, by, at} that the last record_decision
\* has to build from its request; at is the instant the Response reports.
LastDecision ==
  [id |-> Val(Val(LastReq.body).id), action |-> Val(Val(LastReq.body).action),
   note |-> IF Val(LastReq.body).note = None THEN "" ELSE Val(Val(LastReq.body).note),
   by |-> Val(LastReq.email), at |-> LastResp.body.at]
\* s without its items of id i, the others in their order.
Without(s, i) ==
  LET RECURSIVE W(_)
      W(k) == IF k = 0 THEN <<>>
              ELSE IF s[k].id = i THEN W(k - 1) ELSE Append(W(k - 1), s[k])
  IN W(Len(s))

\* ------------------------------------------------------------- claims
\* C1: a record_decision(id, action) by an allow-listed approver that runs
\* alone with PendingQueue already initialised leaves PendingQueue equal to
\* the PendingQueue it found without the items of that id, the others in
\* their order, and the new Decision {id, action, note, by, at} first in
\* History.  (Checked under SeqSpec: requests do not overlap.)
C1_DecisionMovesItem ==
  (Quiescent /\ Recorded /\ LastPre # None) =>
     /\ kvPending # None
     /\ Pending = Without(JSONparse(Val(LastPre)), LastDecision.id)
     /\ History # <<>>
     /\ Head(History) = LastDecision

\* C1 witness: a decision on A found pending [A, B] and left pending [B].
C1_Witness ==
  /\ Quiescent /\ Recorded
  /\ LastPre = Some(JSONstringify(<<Item("A"), Item("B")>>))
  /\ LastDecision.id = "A"
  /\ Pending = <<Item("B")>>
  /\ Head(History).id = "A"

\* accept_snapshot answered ok.
Accepted == LastWas("sync") /\ LastResp.status = 200

\* C2: with non-overlapping pushes, an accept_snapshot that finds no
\* PendingQueue value sets PendingQueue to exactly the snapshot's
\* pending_approvals (the empty list if absent); an accept_snapshot that
\* finds a PendingQueue value, empty or not, leaves it as it is whatever its
\* own pending_approvals are.  (Checked under SeqSpec.)
C2_SeedsOnce ==
  (Quiescent /\ Accepted) =>
     LET snapshot == Val(LastReq.body)
     IN IF LastPre = None
          THEN /\ kvPending # None
               /\ Pending = IF snapshot.pending_approvals = None THEN <<>>
                            ELSE Val(snapshot.pending_approvals)
          ELSE kvPending = LastPre

\* C2 witness: the queue seeded with [A, B] was emptied by decisions on A
\* and on B; a later push listing [A, B] found it empty and left it empty.
C2_Witness ==
  /\ Quiescent /\ Accepted
  /\ Val(LastReq.body).pending_approvals = Some(<<Item("A"), Item("B")>>)
  /\ LastPre = Some(JSONstringify(<<>>))
  /\ kvPending = Some(JSONstringify(<<>>))
  /\ {"A", "B"} \subseteq IdsOf(History)

\* The n most recently returned decisions, newest first.
NewestFirst(n) == [k \in 1..n |-> returned[Len(returned) + 1 - k]]

\* C3: after N non-overlapping successful record_decision calls from an
\* empty History, History holds exactly the min(N, 100) most recent
\* Decisions, newest first.  (Checked under SeqSpec; the initial states are
\* the states after 0 and after 99 such calls.)
C3_HistoryIsNewestHundred ==
  Quiescent => History = NewestFirst(Min(Len(returned), 100))

\* C3 witness: 101 decisions were recorded, History has 100 entries and the
\* first decision recorded is not among them.
C3_Witness ==
  /\ Quiescent
  /\ Len(returned) = 101
  /\ Len(History) = 100
  /\ \A k \in 1..Len(History) : History[k] # returned[1]
  /\ History[100] = returned[2]

\* C4: in every reachable state, under any interleaving of record_decision
\* and accept_snapshot calls, the stored History has at most 100 entries.
C4_HistoryAtMostHundred == Len(History) <= 100

\* C4 witness: 101 decisions were returned, the last two by overlapping calls
\* (the one that read the clock first wrote History last), and History is full.
C4_Witness ==
  /\ Len(returned) = 101
  /\ Len(History) = 100
  /\ History[1].at < History[2].at

\* C5: in every state where no call is in progress, no id that has a
\* Decision in History is in PendingQueue, in every order of operations.
C5_DecidedNotPending ==
  Quiescent => IdsOf(History) \cap IdsOf(Pending) = {}

\* The identity of the request that returned last is on the allow-list.
LastAllowed == toLowerCase(Val(LastReq.email)) \in ALLOWED_APPROVERS
LastError == LastResp.body.error

\* C6: a submit_decision call without a resolved identity fails with
\* Unauthorized and one whose identity is not on the allow-list fails with
\* Forbidden; either call, whatever its body, returns in the step it arrives
\* in and leaves the decision keys, PendingQueue and History (the whole
\* store) unchanged.
C6_RejectedLeavesStore ==
  [][ (last' # last /\ LastWas("approve")') =>
        /\ (LastReq.email = None)' =>
              /\ (LastResp.status = 401 /\ LastError = "Unauthorized")'
              /\ Quiescent /\ UNCHANGED store
        /\ (LastReq.email # None /\ ~LastAllowed)' =>
              /\ (LastResp.status = 403
                    /\ LastError = "Forbidden - not an authorized approver")'
              /\ Quiescent /\ UNCHANGED store ]_vars

\* C6 witness: a well-formed approve of A by an identity off the allow-list
\* was answered 403 while A was pending.
C6_Witness ==
  /\ LastWas("approve")
  /\ LastReq.email = Some("mallory@example.com")
  /\ LastReq.body = Some([id |-> Some("A"), action |-> Some("approve"), note |-> None])
  /\ LastResp.status = 403
  /\ "A" \in IdsOf(Pending)

MissingField == "Missing required fields: id, action"
InvalidAction == "action must be approve or reject"
NotAuthorized == "Forbidden - not an authorized approver"
Lacks(body) == body.id = None \/ body.action = None
BadAction(body) == body.action # None /\ Val(body.action) \notin {"approve", "reject"}

\* C7 as claimed: the preconditions are checked in the order (1) id and
\* action present, (2) action is approve or reject, (3) identity on the
\* allow-list, and the failure reported is that of the first one violated.
C7_Original ==
  (LastWas("approve") /\ LastReq.email # None /\ LastReq.body # None) =>
     LET body == Val(LastReq.body)
     IN IF Lacks(body) THEN LastResp.status = 400 /\ LastError = MissingField
        ELSE IF BadAction(body) THEN LastResp.status = 400 /\ LastError = InvalidAction
        ELSE IF ~LastAllowed THEN LastResp.status = 403 /\ LastError = NotAuthorized
        ELSE LastResp.status = 200

\* C7 amended: for a request with a resolved identity and a JSON body the
\* preconditions are checked in the order (1) identity on the allow-list,
\* (2) id and action present, (3) action is approve or reject, and the
\* failure reported is that of the first one violated.
C7_ChecksInCodeOrder ==
  (LastWas("approve") /\ LastReq.email # None /\ LastReq.body # None) =>
     LET body == Val(LastReq.body)
     IN IF ~LastAllowed THEN LastResp.status = 403 /\ LastError = NotAuthorized
        ELSE IF Lacks(body) THEN LastResp.status = 400 /\ LastError = MissingField
        ELSE IF BadAction(body) THEN LastResp.status = 400 /\ LastError = InvalidAction
        ELSE LastResp.status = 200

\* C7 witness: an identity off the allow-list sent a body with neither id nor
\* a valid action and was answered Forbidden.
C7_Witness ==
  /\ LastWas("approve")
  /\ LastReq.email = Some("mallory@example.com")
  /\ LastReq.body = Some([id |-> None, action |-> Some("delete"), note |-> None])
  /\ LastResp.status = 403 /\ LastError = NotAuthorized

\* C8: recording a decision for an id that is not in PendingQueue succeeds,
\* leaves PendingQueue as it was (the same items in the same order, or still
\* never written) and puts the Decision first in History.  (Checked under
\* SeqSpec.)
C8_AbsentIdStillRecorded ==
  (Quiescent /\ LastWas("approve") /\ LastReq.email # None /\ LastAllowed
     /\ LastReq.body # None /\ ~Lacks(Val(LastReq.body)) /\ ~BadAction(Val(LastReq.body))
     /\ (LastPre = None \/ Val(Val(LastReq.body).id) \notin IdsOf(JSONparse(Val(LastPre))))) =>
     /\ LastResp.status = 200
     /\ LastResp.body = [ok |-> TRUE, id |-> LastDecision.id, action |-> LastDecision.action,
                         note |-> LastDecision.note, by |-> LastDecision.by,
                         at |-> LastDecision.at]
     /\ kvPending = LastPre
     /\ History # <<>> /\ Head(History) = LastDecision

\* C8 witness: a decision on A, recorded when PendingQueue was [B], left it
\* [B] and stands first in History.
C8_Witness ==
  /\ Quiescent /\ Recorded
  /\ LastDecision.id = "A"
  /\ LastPre = Some(JSONstringify(<<Item("B")>>))
  /\ Pending = <<Item("B")>>
  /\ Head(History) = LastDecision

C10_OneItemPerId ==
  \A j, k \in 1..Len(Pending) : Pending[j].id = Pending[k].id => j = k

\* C10 witness: overlapping decisions on A and on B both returned and the
\* PendingQueue written last still holds one of the two items.
C10_Witness ==
  /\ Quiescent
  /\ {"A", "B"} \subseteq {returned[k].id : k \in 1..Len(returned)}
  /\ Len(Pending) = 1

\* No entry of s is followed by an entry taken at a later instant (stated of
\* neighbours, which by transitivity states it of every two entries).
NewestFirstByAt(s) == \A k \in 1..(Len(s) - 1) : s[k].at >= s[k + 1].at

\* C11 as claimed: in every reachable state, interleaved record_decision
\* calls included, no entry of History is followed by an entry with a later
\* `at`.
C11_Original == NewestFirstByAt(History)

\* C11 amended: as long as no request has arrived while another was in
\* progress, no entry of History is followed by an entry with a later `at`.
C11_OrderedUnlessOverlapped == ~overlapped => NewestFirstByAt(History)

\* C11 witness: two decisions recorded one after the other at different
\* instants, the later one first in History.
C11_Witness ==
  /\ ~overlapped /\ Quiescent
  /\ Len(History) >= 2
  /\ History[1].at > History[2].at
  /\ History[1].id \in Ids /\ History[2].id \in Ids

\* C12 as claimed: the `agents` output of an accepted push is
\* "<active_agents> active" exactly when the snapshot has summary.active_agents,
\* and "unknown" in every other case, a summary object without active_agents
\* included.  (The code tests summary alone: a summary without active_agents
\* yields "undefined active".)
C12_AgentsUnknownUnlessPresent ==
  Accepted =>
     LET snapshot == Val(LastReq.body)
         present == snapshot.summary # None /\ Val(snapshot.summary).active_agents # None
     IN LastResp.body.agents = IF present THEN <<"2", " active">> ELSE <<"unknown">>

\* The request that slot p takes in a step in which it takes one: the one it
\* answered in that step, or the one it is left serving.
Taken(p) == IF pc'[p] = "idle" THEN Val(last').req ELSE Val(req'[p])
\* Slot p takes a request in this step.
Takes(p) == quota'[p] # quota[p]
\* A record_decision request that passes every check: an allow-listed
\* identity, a JSON body with id and with action approve or reject.
PassesChecks(r) ==
  /\ r.op = "approve"
  /\ r.email # None /\ toLowerCase(Val(r.email)) \in ALLOWED_APPROVERS
  /\ r.body # None
  /\ Val(r.body).id # None
  /\ Val(r.body).action \in {Some("approve"), Some("reject")}
\* The Decision built from request r at instant t.
DecisionOf(r, t) ==
  [id |-> Val(Val(r.body).id), action |-> Val(Val(r.body).action),
   note |-> IF Val(r.body).note = None THEN "" ELSE Val(Val(r.body).note),
   by |-> Val(r.email), at |-> t]

\* C13: without an APPROVALS binding, a record_decision call that passes all
\* checks returns, in the step in which it arrives, status 200 with ok: true
\* and the fields of the constructed Decision, and performs no store
\* operation: it waits on no KV get or put and leaves every key as it was.
C13_UnboundStoreReturnsDecision ==
  [][\A p \in Slots :
       (Takes(p) /\ ~env.APPROVALS /\ PassesChecks(Taken(p))) =>
          /\ pc'[p] = "idle"
          /\ Val(last').resp.status = 200
          /\ Val(last').resp.body.ok = TRUE
          /\ \E t \in 0..MaxClock :
               LET d == DecisionOf(Taken(p), t)
               IN Val(last').resp.body =
                    [ok |-> TRUE, id |-> d.id, action |-> d.action, note |-> d.note,
                     by |-> d.by, at |-> d.at]
          /\ UNCHANGED store]_vars

\* C13 witness: a decision on A with a note was returned with ok: true while
\* APPROVALS is unbound, and no decision key, pending list or history exists.
C13_Witness ==
  /\ ~env.APPROVALS
  /\ Recorded /\ PassesChecks(LastReq)
  /\ LastResp.body.ok = TRUE /\ LastResp.body.id = "A" /\ LastResp.body.note = "lgtm"
  /\ kvDecision["A"] = None /\ kvPending = None /\ kvHistory = None

\* C14: nothing serializes the read-modify-write of PendingQueue: while one
\* record_decision call is between its read and its write of "pending",
\* another call's read of "pending" and another call's write of it can take
\* place.  (The interleaving that loses an update is the witness.)
C14_PendingUpdateNotSerialized ==
  \A p \in Slots : \A q \in Slots \ {p} :
     pc[p] = "put_pending" =>
        /\ pc[q] = "get_pending" => ENABLED ApproveGetPending(q)
        /\ pc[q] = "put_pending" => ENABLED ApprovePutPending(q)

\* C14 witness: two overlapping calls, one for A and one for B, both pending
\* when the calls arrived, have both returned their Decision, and one of A
\* and B is still in PendingQueue.
C14_Witness ==
  /\ Quiescent /\ overlapped /\ Recorded
  /\ LastPre = Some(JSONstringify(<<Item("A"), Item("B")>>))
  /\ Len(returned) >= 2
  /\ {returned[Len(returned)].id, returned[Len(returned) - 1].id} = {"A", "B"}
  /\ {kvDecision["A"], kvDecision["B"]} \cap {None} = {}
  /\ IdsOf(Pending) \in {{"A"}, {"B"}}

\* Slot p's accept_snapshot writes the "pending" key in this step.
SyncWritesPending(p) == pc[p] = "seed_pending" /\ pc'[p] = "idle"

\* C15 as claimed: in every execution, overlapping calls included,
\* accept_snapshot writes the PendingQueue key only while no PendingQueue
\* value exists (so, the key never being deleted, at most once in total, and
\* every write after the first is record_decision's).
C15_Original == [][\A p \in Slots : SyncWritesPending(p) => kvPending = None]_vars

\* C15 amended: as long as no request has arrived while another was in
\* progress, accept_snapshot writes the PendingQueue key only while no
\* PendingQueue value exists.
C15_SeedsOnceUnlessOverlapped ==
  [][\A p \in Slots : (SyncWritesPending(p) /\ ~overlapped') => kvPending = None]_vars

\* C15 witness: without overlap, a push seeded PendingQueue with [A, B] and a
\* later push of another list found the value and left it.
C15_Witness ==
  /\ ~overlapped /\ Quiescent /\ Accepted
  /\ LastPre = Some(JSONstringify(<<Item("A"), Item("B")>>))
  /\ Val(LastReq.body).pending_approvals # Some(<<Item("A"), Item("B")>>)
  /\ kvPending = LastPre
  /\ kvHistory = None

\* The ids that are in PendingQueue before this step and not after it.
Leaving == IdsOf(Pending) \ IdsOf(Pending')
\* This step is the write of "pending" by a record_decision for id i, whose
\* Decision is persisted under its decision key.
RemovedByDecision(i) ==
  /\ \E p \in Slots : pc[p] = "put_pending" /\ pc'[p] = "get_history"
                         /\ Val(decision[p]).id = i
  /\ kvDecision'[i] # None

\* C16 as claimed: in every step of every execution, overlapping calls
\* included, an id that is in PendingQueue before the step and not after it
\* has a Decision persisted for it and leaves through the record_decision for
\* its id, never through a push or a decision on another id.
C16_Original == [][\A i \in Leaving : RemovedByDecision(i)]_vars

\* C16 amended: the same, of every step taken while no request has arrived
\* during another request's execution.
C16_LeavesByDecisionUnlessOverlapped ==
  [][~overlapped' => \A i \in Leaving : RemovedByDecision(i)]_vars

\* C16 witness: without overlap, a decision on B found [A, B] pending and
\* left [A]; B has its decision record and A, undecided, is still pending.
C16_Witness ==
  /\ ~overlapped /\ Quiescent /\ Recorded
  /\ LastDecision.id = "B"
  /\ LastPre = Some(JSONstringify(<<Item("A"), Item("B")>>))
  /\ IdsOf(Pending) = {"A"}
  /\ kvDecision["B"] # None /\ kvDecision["A"] = None

\* The decisions returned before the request that returned last arrived,
\* oldest first (requests do not overlap).
ReturnedBefore ==
  IF Recorded THEN SubSeq(returned, 1, Len(returned) - 1) ELSE returned

\* C17: with non-overlapping calls, a record_decision that passes the checks
\* for an id that already has a Decision D1 returns its Decision D2 (it does
\* not fail), after which the decision record of the id is D2, D2 is first
\* in History and D1 is a later entry of History.  (Checked under SeqSpec.)
C17_RedecidingOverwrites ==
  (Quiescent /\ LastWas("approve") /\ PassesChecks(LastReq)) =>
     \A j \in 1..Len(ReturnedBefore) :
        ReturnedBefore[j].id = Val(Val(LastReq.body).id) =>
           /\ LastResp.status = 200
           /\ kvDecision[LastDecision.id] = Some(JSONstringify(LastDecision))
           /\ History # <<>> /\ History[1] = LastDecision
           /\ \E k \in 2..Len(History) : History[k] = ReturnedBefore[j]

\* C17 witness: A was approved, then rejected; the record of A is the
\* rejection and History has the rejection first, the approval second.
C17_Witness ==
  /\ Quiescent /\ Recorded
  /\ LastDecision.id = "A" /\ LastDecision.action = "reject"
  /\ kvDecision["A"] = Some(JSONstringify(LastDecision))
  /\ Len(History) >= 2
  /\ History[1] = LastDecision
  /\ History[2].id = "A" /\ History[2].action = "approve"

\* Every decision that record_decision returned is an entry of History.
AllReturnedInHistory ==
  \A j \in 1..Len(returned) : \E k \in 1..Len(History) : History[k] = returned[j]

\* C18 as claimed: when fewer than 100 decisions have been recorded in total
\* and no call is in progress, every Decision that record_decision returned
\* is an entry of History, under any interleaving of overlapping calls.
C18_Original == (Quiescent /\ Len(returned) < 100) => AllReturnedInHistory

\* C18 amended: the same, as long as no request has arrived while another
\* was in progress.
C18_NoneLostUnlessOverlapped ==
  (Quiescent /\ Len(returned) < 100 /\ ~overlapped) => AllReturnedInHistory

\* C18 witness: two decisions, on A and on B, were returned one after the
\* other and both are entries of History.
C18_Witness ==
  /\ Quiescent /\ ~overlapped
  /\ Len(returned) = 2
  /\ {returned[1].id, returned[2].id} = {"A", "B"}
  /\ History = <<returned[2], returned[1]>>

\* The first entry of s with id i (s has one).
FirstOf(s, i) ==
  s[CHOOSE k \in 1..Len(s) : s[k].id = i /\ \A m \in 1..(k - 1) : s[m].id # i]
\* For every id with an entry in History, the decision record of the id is
\* the first History entry with that id.
RecordIsFirstInHistory ==
  \A i \in IdsOf(History) : kvDecision[i] = Some(JSONstringify(FirstOf(History, i)))

\* C19 as claimed: when no call is in progress, for every id whose newest
\* History entry has not been evicted the decision record of the id equals
\* the first History entry with that id, under any interleaving of
\* overlapping record_decision calls.
C19_Original == Quiescent => RecordIsFirstInHistory

\* C19 amended: the same, as long as no request has arrived while another
\* was in progress.
C19_RecordIsNewestUnlessOverlapped == (Quiescent /\ ~overlapped) => RecordIsFirstInHistory

\* C19 witness: A was decided twice, one call after the other, with
\* different actions; the record of A is the first entry of History.
C19_Witness ==
  /\ Quiescent /\ ~overlapped
  /\ Len(History) >= 2
  /\ History[1].id = "A" /\ History[2].id = "A"
  /\ History[1].action # History[2].action
  /\ kvDecision["A"] = Some(JSONstringify(History[1]))

=============================================================================
